---- MODULE Spec2Model ----
(***************************************************************************)
(* The Item tree of the query compiler (ast.rs), its coercion helpers,     *)
(* as_scalar and the Unnest fold.                                          *)
(*                                                                         *)
(* An Item is a record whose `tag` is the enum variant; the payload sits   *)
(* in a field named after what the variant holds.  A Result<T> is          *)
(* [ok |-> TRUE, val |-> v] or [ok |-> FALSE, err |-> e].                  *)
(***************************************************************************)
EXTENDS Integers, Sequences

VARIABLES item, arg, result, pc, depth

vars == <<item, arg, result, pc, depth>>

\* Number of constructor applications the producer makes around a seed.
MaxDepth == 2

RECURSIVE as_scalar(_)
RECURSIVE as_scalar_terms_only(_)
RECURSIVE as_scalar_through_list(_)
RECURSIVE as_scalar_first(_)
RECURSIVE Unnest_fold_item(_)
RECURSIVE fold_item(_)
RECURSIVE fold_items(_)
RECURSIVE fold_transformation(_)
RECURSIVE fold_pipeline(_)
RECURSIVE fold_assign(_)
RECURSIVE fold_assigns(_)
RECURSIVE fold_named_arg(_)
RECURSIVE fold_named_args(_)
RECURSIVE fold_func_call(_)
RECURSIVE fold_list_item(_)
RECURSIVE fold_sstring_item(_)
RECURSIVE fold_function(_)
RECURSIVE fold_table(_)
RECURSIVE Flatten(_)
RECURSIVE PreOrder(_)
RECURSIVE TermsCore(_)
RECURSIVE Unwrapped(_, _)

(***************************************************************************)
(* Result<T>                                                               *)
(***************************************************************************)
Ok(v) == [ok |-> TRUE, val |-> v]

Err(e) == [ok |-> FALSE, err |-> e]

\* Iterator::try_collect over a sequence of Results: the first failure, or
\* the sequence of the values.
try_collect(rs) ==
    IF \A i \in 1..Len(rs) : rs[i].ok
    THEN Ok([i \in 1..Len(rs) |-> rs[i].val])
    ELSE LET first == CHOOSE i \in 1..Len(rs) :
                          /\ ~rs[i].ok
                          /\ \A j \in 1..(i - 1) : rs[j].ok
         IN  Err(rs[first].err)

(***************************************************************************)
(* The node model: one constructor per variant.                            *)
(***************************************************************************)
Ident(name) == [tag |-> "Ident", name |-> name]

String(str) == [tag |-> "String", str |-> str]

Raw(str) == [tag |-> "Raw", str |-> str]

Todo(str) == [tag |-> "Todo", str |-> str]

Idents(idents) == [tag |-> "Idents", idents |-> idents]

Terms(items) == [tag |-> "Terms", items |-> items]

Items(items) == [tag |-> "Items", items |-> items]

Query(items) == [tag |-> "Query", items |-> items]

ListItem(items) == [items |-> items]

List(list) == [tag |-> "List", list |-> list]

Assign(lvalue, rvalue) == [lvalue |-> lvalue, rvalue |-> rvalue]

NamedArg(name, a) == [name |-> name, arg |-> a]

FuncCall(name, args, named_args) ==
    [name |-> name, args |-> args, named_args |-> named_args]

Function(name, args, body) == [name |-> name, args |-> args, body |-> body]

Table(name, pipeline) == [name |-> name, pipeline |-> pipeline]

Filter(items) == [items |-> items]

ItemAssign(a) == [tag |-> "Assign", assign |-> a]

ItemNamedArg(na) == [tag |-> "NamedArg", named_arg |-> na]

ItemFunction(f) == [tag |-> "Function", function |-> f]

ItemTable(t) == [tag |-> "Table", table |-> t]

ItemPipeline(p) == [tag |-> "Pipeline", pipeline |-> p]

ItemTransformation(t) == [tag |-> "Transformation", transformation |-> t]

ItemSString(s) == [tag |-> "SString", sstring |-> s]

SStringString(str) == [tag |-> "String", str |-> str]

SStringExpr(e) == [tag |-> "Expr", item |-> e]

From(name) == [tag |-> "From", name |-> name]

Select(items) == [tag |-> "Select", items |-> items]

TFilter(f) == [tag |-> "Filter", filter |-> f]

Derive(assigns) == [tag |-> "Derive", assigns |-> assigns]

Aggregate(by, calcs, assigns) ==
    [tag |-> "Aggregate", by |-> by, calcs |-> calcs, assigns |-> assigns]

Sort(items) == [tag |-> "Sort", items |-> items]

Take(n) == [tag |-> "Take", n |-> n]

Join(items) == [tag |-> "Join", items |-> items]

Func(fc) == [tag |-> "Func", func_call |-> fc]

(***************************************************************************)
(* utils: only / into_only                                                  *)
(***************************************************************************)
only(items) ==
    IF Len(items) = 1
    THEN Ok(items[1])
    ELSE Err([msg |-> "Expected only one element", found |-> items])

into_only(items) == only(items)

(***************************************************************************)
(* impl Item: the coercion helpers                                         *)
(***************************************************************************)
into_inner_items(self) ==
    IF self.tag \in {"Terms", "Items", "Query"} THEN self.items ELSE <<self>>

into_inner(list_item) == list_item.items

\* into_inner_list_single_items that takes the first element of a ListItem
\* without checking that it is the only one.
into_inner_list_single_items_first(self) ==
    IF self.tag = "List"
    THEN try_collect([i \in 1..Len(self.list) |->
                          IF Len(self.list[i].items) >= 1
                          THEN Ok(self.list[i].items[1])
                          ELSE into_only(into_inner(self.list[i]))])
    ELSE Err([msg |-> "Expected a list", got |-> self])

into_inner_list_single_items(self) ==
    IF self.tag = "List"
    THEN try_collect([i \in 1..Len(self.list) |->
                          into_only(into_inner(self.list[i]))])
    ELSE Err([msg |-> "Expected a list", got |-> self])

coerce_to_list(self) ==
    IF self.tag = "List" THEN self ELSE List(<<ListItem(<<self>>)>>)

\* into_list_of_items that puts every item into one ListItem.
into_list_of_items_one_list_item(items) == List(<<ListItem(items)>>)

into_list_of_items(items) ==
    List([i \in 1..Len(items) |-> ListItem(<<items[i]>>)])

\* as_scalar that unwraps a single level instead of the whole chain.
as_scalar_one_level(self) ==
    IF self.tag \in {"Terms", "Items"}
    THEN LET o == only(self.items)
         IN  IF o.ok THEN o.val ELSE self
    ELSE self

\* as_scalar that matches Item::Terms only.
as_scalar_terms_only(self) ==
    IF self.tag = "Terms"
    THEN LET o == only(self.items)
         IN  IF o.ok THEN as_scalar_terms_only(o.val) ELSE self
    ELSE self

\* as_scalar that also matches a List of one ListItem.
as_scalar_through_list(self) ==
    IF self.tag \in {"Terms", "Items"}
    THEN LET o == only(self.items)
         IN  IF o.ok THEN as_scalar_through_list(o.val) ELSE self
    ELSE IF self.tag = "List" /\ Len(self.list) = 1 /\ Len(self.list[1].items) = 1
    THEN as_scalar_through_list(self.list[1].items[1])
    ELSE self

\* as_scalar that takes the first child instead of the only child.
as_scalar_first(self) ==
    IF self.tag \in {"Terms", "Items"}
    THEN IF Len(self.items) >= 1 THEN as_scalar_first(self.items[1]) ELSE self
    ELSE self

as_scalar(self) ==
    IF self.tag \in {"Terms", "Items"}
    THEN LET o == only(self.items)
         IN  IF o.ok THEN as_scalar(o.val) ELSE self
    ELSE self

(***************************************************************************)
(* ast_fold: the default handlers of AstFold, with Unnest as the fold:     *)
(* every child item is folded with the fold's own fold_item.               *)
(***************************************************************************)
fold_ident(ident) == Ok(ident)

fold_idents(idents) == try_collect([i \in 1..Len(idents) |-> fold_ident(idents[i])])

fold_items(items) ==
    try_collect([i \in 1..Len(items) |-> Unnest_fold_item(items[i])])

fold_list_item(list_item) ==
    LET r == fold_items(list_item.items)
    IN  IF r.ok THEN Ok(ListItem(r.val)) ELSE r

fold_assign(assign) ==
    LET r == Unnest_fold_item(assign.rvalue)
    IN  IF r.ok THEN Ok(Assign(assign.lvalue, r.val)) ELSE r

fold_assigns(assigns) ==
    try_collect([i \in 1..Len(assigns) |-> fold_assign(assigns[i])])

fold_named_arg(named_arg) ==
    LET r == Unnest_fold_item(named_arg.arg)
    IN  IF r.ok THEN Ok(NamedArg(named_arg.name, r.val)) ELSE r

fold_named_args(named_args) ==
    try_collect([i \in 1..Len(named_args) |-> fold_named_arg(named_args[i])])

fold_func_call(func_call) ==
    LET a == fold_items(func_call.args)
        n == fold_named_args(func_call.named_args)
    IN  IF ~a.ok THEN a
        ELSE IF ~n.ok THEN n
        ELSE Ok(FuncCall(func_call.name, a.val, n.val))

fold_transformation(t) ==
    CASE t.tag = "From" -> Ok(t)
      [] t.tag = "Take" -> Ok(t)
      [] t.tag \in {"Select", "Sort", "Join"} ->
            LET r == fold_items(t.items)
            IN  IF r.ok THEN Ok([tag |-> t.tag, items |-> r.val]) ELSE r
      [] t.tag = "Filter" ->
            LET r == fold_items(t.filter.items)
            IN  IF r.ok THEN Ok(TFilter(Filter(r.val))) ELSE r
      [] t.tag = "Derive" ->
            LET r == fold_assigns(t.assigns)
            IN  IF r.ok THEN Ok(Derive(r.val)) ELSE r
      [] t.tag = "Aggregate" ->
            LET b == fold_items(t.by)
                c == fold_items(t.calcs)
                a == fold_assigns(t.assigns)
            IN  IF ~b.ok THEN b
                ELSE IF ~c.ok THEN c
                ELSE IF ~a.ok THEN a
                ELSE Ok(Aggregate(b.val, c.val, a.val))
      [] t.tag = "Func" ->
            LET r == fold_func_call(t.func_call)
            IN  IF r.ok THEN Ok(Func(r.val)) ELSE r

fold_pipeline(pipeline) ==
    try_collect([i \in 1..Len(pipeline) |-> fold_transformation(pipeline[i])])

fold_sstring_item(s) ==
    IF s.tag = "Expr"
    THEN LET r == Unnest_fold_item(s.item)
         IN  IF r.ok THEN Ok(SStringExpr(r.val)) ELSE r
    ELSE Ok(s)

fold_function(f) ==
    LET r == fold_items(f.body)
    IN  IF r.ok THEN Ok(Function(f.name, f.args, r.val)) ELSE r

fold_table(t) ==
    LET r == fold_pipeline(t.pipeline)
    IN  IF r.ok THEN Ok(Table(t.name, r.val)) ELSE r

fold_item(it) ==
    CASE it.tag \in {"String", "Raw", "Todo"} -> Ok(it)
      [] it.tag = "Ident" ->
            LET r == fold_ident(it.name)
            IN  IF r.ok THEN Ok(Ident(r.val)) ELSE r
      [] it.tag = "Idents" ->
            LET r == fold_idents(it.idents)
            IN  IF r.ok THEN Ok(Idents(r.val)) ELSE r
      [] it.tag \in {"Terms", "Items", "Query"} ->
            LET r == fold_items(it.items)
            IN  IF r.ok THEN Ok([tag |-> it.tag, items |-> r.val]) ELSE r
      [] it.tag = "List" ->
            LET r == try_collect([i \in 1..Len(it.list) |->
                                      fold_list_item(it.list[i])])
            IN  IF r.ok THEN Ok(List(r.val)) ELSE r
      [] it.tag = "Assign" ->
            LET r == fold_assign(it.assign)
            IN  IF r.ok THEN Ok(ItemAssign(r.val)) ELSE r
      [] it.tag = "NamedArg" ->
            LET r == fold_named_arg(it.named_arg)
            IN  IF r.ok THEN Ok(ItemNamedArg(r.val)) ELSE r
      [] it.tag = "Pipeline" ->
            LET r == fold_pipeline(it.pipeline)
            IN  IF r.ok THEN Ok(ItemPipeline(r.val)) ELSE r
      [] it.tag = "Transformation" ->
            LET r == fold_transformation(it.transformation)
            IN  IF r.ok THEN Ok(ItemTransformation(r.val)) ELSE r
      [] it.tag = "SString" ->
            LET r == try_collect([i \in 1..Len(it.sstring) |->
                                      fold_sstring_item(it.sstring[i])])
            IN  IF r.ok THEN Ok(ItemSString(r.val)) ELSE r
      [] it.tag = "Function" ->
            LET r == fold_function(it.function)
            IN  IF r.ok THEN Ok(ItemFunction(r.val)) ELSE r
      [] it.tag = "Table" ->
            LET r == fold_table(it.table)
            IN  IF r.ok THEN Ok(ItemTable(r.val)) ELSE r

(***************************************************************************)
(* struct Unnest: the one override of the fold                             *)
(***************************************************************************)
\* fold_item that returns the scalar of a Terms without folding it.
Unnest_fold_item_no_recurse(it) ==
    IF it.tag = "Terms" THEN Ok(as_scalar(it)) ELSE fold_item(it)

\* fold_item without the Terms arm.
Unnest_fold_item_no_scalar(it) == fold_item(it)

\* fold_item that propagates the failure of only() instead of falling back
\* to the node itself.
Unnest_fold_item_only(it) ==
    IF it.tag = "Terms"
    THEN LET o == only(it.items)
         IN  IF o.ok THEN fold_item(as_scalar(o.val)) ELSE o
    ELSE fold_item(it)

Unnest_fold_item(it) ==
    IF it.tag = "Terms" THEN fold_item(as_scalar(it)) ELSE fold_item(it)

\* The value a panicking unwrap leaves behind.
Panic == [tag |-> "panic"]

\* Result::unwrap
unwrap(r) == IF r.ok THEN r.val ELSE Panic

into_unnested(self) == unwrap(Unnest_fold_item(self))

(***************************************************************************)
(* The producer: the grammar layer builds an Item around a seed, one       *)
(* constructor at a time; afterwards one helper is applied to it.          *)
(***************************************************************************)
Seeds ==
    { Ident("a"), Todo("t"), Terms(<<>>), List(<<>>), Idents(<<"a", "b">>),
      ItemTransformation(Take(1)) }

Siblings == { Ident("b"), Terms(<<Ident("b")>>) }

Init ==
    /\ item \in Seeds
    /\ arg = <<>>
    /\ result = <<>>
    /\ pc = "build"
    /\ depth = 0

Build(new) ==
    /\ pc = "build"
    /\ depth < MaxDepth
    /\ item' = new
    /\ depth' = depth + 1
    /\ UNCHANGED <<arg, result, pc>>

MkTerms == Build(Terms(<<item>>)) \/ \E s \in Siblings : Build(Terms(<<item, s>>))

MkItems == Build(Items(<<item>>)) \/ Build(Items(<<item, Raw("r")>>))

MkQuery == Build(Query(<<item>>)) \/ Build(Query(<<item, String("s")>>))

MkList ==
    \/ Build(List(<<ListItem(<<item>>)>>))
    \/ Build(List(<<ListItem(<<item, Ident("b")>>)>>))
    \/ Build(List(<<ListItem(<<item>>), ListItem(<<Terms(<<Ident("b")>>)>>)>>))
    \/ Build(List(<<ListItem(<<>>), ListItem(<<item>>)>>))

MkAssign == Build(ItemAssign(Assign("x", item)))

MkNamedArg == Build(ItemNamedArg(NamedArg("n", item)))

MkSString == Build(ItemSString(<<SStringString("s"), SStringExpr(item)>>))

MkFunction == Build(ItemFunction(Function("f", <<"x">>, <<item>>)))

MkTransformation ==
    \/ Build(ItemTransformation(Select(<<item>>)))
    \/ Build(ItemTransformation(TFilter(Filter(<<item>>))))
    \/ Build(ItemTransformation(Sort(<<item>>)))
    \/ Build(ItemTransformation(Join(<<item>>)))
    \/ Build(ItemTransformation(Derive(<<Assign("x", item)>>)))
    \/ Build(ItemTransformation(
                Aggregate(<<item>>, <<Terms(<<Ident("b")>>)>>,
                          <<Assign("x", item)>>)))
    \/ Build(ItemTransformation(
                Func(FuncCall("f", <<item>>, <<NamedArg("n", item)>>))))

MkPipeline == Build(ItemPipeline(<<From("a"), Select(<<item>>)>>))

MkTable == Build(ItemTable(Table("t", <<From("a"), TFilter(Filter(<<item>>))>>)))

Apply(op, a, r) ==
    /\ pc = "build"
    /\ pc' = op
    /\ arg' = a
    /\ result' = r
    /\ UNCHANGED <<item, depth>>

IntoUnnested ==
    LET r == Unnest_fold_item(item)
    IN  Apply(IF r.ok THEN "into_unnested" ELSE "panic", item, unwrap(r))

AsScalar == Apply("as_scalar", item, as_scalar(item))

CoerceToList == Apply("coerce_to_list", item, coerce_to_list(item))

IntoListOfItems ==
    \E xs \in {into_inner_items(item), <<Ident("b"), item>>} :
        Apply("into_list_of_items", xs, into_list_of_items(xs))

IntoInnerListSingleItems ==
    Apply("into_inner_list_single_items", item,
          into_inner_list_single_items(item))

Next ==
    \/ MkTerms
    \/ MkItems
    \/ MkQuery
    \/ MkList
    \/ MkAssign
    \/ MkNamedArg
    \/ MkSString
    \/ MkFunction
    \/ MkTransformation
    \/ MkPipeline
    \/ MkTable
    \/ IntoUnnested
    \/ AsScalar
    \/ CoerceToList
    \/ IntoListOfItems
    \/ IntoInnerListSingleItems

Spec == Init /\ [][Next]_vars

(***************************************************************************)
(* Vocabulary of the properties: the nodes of a tree, in pre-order.        *)
(***************************************************************************)
Flatten(ss) == IF ss = <<>> THEN <<>> ELSE Head(ss) \o Flatten(Tail(ss))

RValues(assigns) == [i \in 1..Len(assigns) |-> assigns[i].rvalue]

ArgValues(named_args) == [i \in 1..Len(named_args) |-> named_args[i].arg]

TransformationChildren(t) ==
    CASE t.tag \in {"Select", "Sort", "Join"} -> t.items
      [] t.tag = "Filter" -> t.filter.items
      [] t.tag = "Derive" -> RValues(t.assigns)
      [] t.tag = "Aggregate" -> t.by \o t.calcs \o RValues(t.assigns)
      [] t.tag = "Func" ->
            t.func_call.args \o ArgValues(t.func_call.named_args)
      [] OTHER -> <<>>

PipelineChildren(p) ==
    Flatten([i \in 1..Len(p) |-> TransformationChildren(p[i])])

SStringChildren(ss) ==
    Flatten([i \in 1..Len(ss) |->
                 IF ss[i].tag = "Expr" THEN <<ss[i].item>> ELSE <<>>])

\* The child Items of a node, left to right.
Children(it) ==
    CASE it.tag \in {"Terms", "Items", "Query"} -> it.items
      [] it.tag = "List" ->
            Flatten([i \in 1..Len(it.list) |-> it.list[i].items])
      [] it.tag = "Assign" -> <<it.assign.rvalue>>
      [] it.tag = "NamedArg" -> <<it.named_arg.arg>>
      [] it.tag = "Pipeline" -> PipelineChildren(it.pipeline)
      [] it.tag = "Transformation" -> TransformationChildren(it.transformation)
      [] it.tag = "SString" -> SStringChildren(it.sstring)
      [] it.tag = "Function" -> it.function.body
      [] it.tag = "Table" -> PipelineChildren(it.table.pipeline)
      [] OTHER -> <<>>

PreOrder(it) ==
    <<it>> \o Flatten([i \in 1..Len(Children(it)) |-> PreOrder(Children(it)[i])])

IsLeaf(it) == it.tag \in {"Ident", "String", "Raw", "Todo"}

IsSingletonTerms(it) == it.tag = "Terms" /\ Len(it.items) = 1

IsSingletonWrapper(it) == it.tag \in {"Terms", "Items"} /\ Len(it.items) = 1

IsItemsOrQuery(it) == it.tag \in {"Items", "Query"}

IsList(it) == it.tag = "List"

\* Kind and number of children of every Items / Query node, in pre-order.
ItemsQueryNodes(it) ==
    LET ns == SelectSeq(PreOrder(it), IsItemsOrQuery)
    IN  [i \in 1..Len(ns) |-> <<ns[i].tag, Len(ns[i].items)>>]

\* Every List node, in pre-order.
Lists(it) == SelectSeq(PreOrder(it), IsList)

HasNode(it, Test(_)) == \E i \in 1..Len(PreOrder(it)) : Test(PreOrder(it)[i])

\* What sits under a chain of one-element Terms.
TermsCore(it) == IF IsSingletonTerms(it) THEN TermsCore(it.items[1]) ELSE it

None == [tag |-> "none"]

\* The node n steps below x along sole children of singleton Terms / Items.
Unwrapped(x, n) ==
    IF n = 0 THEN x
    ELSE IF IsSingletonWrapper(x) THEN Unwrapped(x.items[1], n - 1)
    ELSE None

(***************************************************************************)
(* Properties                                                              *)
(***************************************************************************)

\* C1: unnest is idempotent: unnesting the result of into_unnested gives
\* that result again.
C1_UnnestIdempotent ==
    pc = "into_unnested" => into_unnested(result) = result

C1_Witness ==
    /\ pc = "into_unnested"
    /\ result # item
    /\ IsSingletonTerms(item)
    /\ IsSingletonWrapper(item.items[1])

\* C2: into_unnested removes only Terms wrappers: every Items node and every
\* Query node of the input is an Items / Query node of the output, with the
\* same number of children, in the same pre-order position among them.
C2_ItemsQueryKept ==
    pc = "into_unnested" => ItemsQueryNodes(result) = ItemsQueryNodes(item)

\* C3: into_unnested never collapses a List: the List nodes of the output
\* are those of the input, each with as many ListItems, each ListItem with
\* as many elements, every element the unnested form of the original; a List
\* under a chain of one-element Terms comes out as a List.
C3_ListNeverCollapsed ==
    pc = "into_unnested" =>
        LET li == Lists(item)
            lo == Lists(result)
        IN  /\ Len(lo) = Len(li)
            /\ \A k \in 1..Len(li) :
                  /\ Len(lo[k].list) = Len(li[k].list)
                  /\ \A i \in 1..Len(li[k].list) :
                        /\ Len(lo[k].list[i].items) = Len(li[k].list[i].items)
                        /\ \A j \in 1..Len(li[k].list[i].items) :
                              lo[k].list[i].items[j]
                                  = into_unnested(li[k].list[i].items[j])
            /\ IsList(TermsCore(item)) => IsList(result)

C3_Witness ==
    /\ pc = "into_unnested"
    /\ IsSingletonTerms(item)
    /\ IsList(item.items[1])
    /\ Len(item.items[1].list) = 1
    /\ Len(item.items[1].list[1].items) = 1
    /\ IsList(result)

\* C4: a chain of one-element Terms around x, x not itself a one-element
\* Terms or Items, unnests to what x unnests to; to x itself when x is a leaf.
C4_SingletonChainCollapses ==
    (pc = "into_unnested" /\ IsSingletonTerms(item)
        /\ ~IsSingletonWrapper(TermsCore(item))) =>
            /\ result = into_unnested(TermsCore(item))
            /\ IsLeaf(TermsCore(item)) => result = TermsCore(item)

C4_Witness ==
    /\ pc = "into_unnested"
    /\ IsSingletonTerms(item)
    /\ IsSingletonTerms(item.items[1])
    /\ IsLeaf(TermsCore(item))
    /\ result = TermsCore(item)

\* C5: a Terms of two or more elements stays a Terms whose children are the
\* unnested children, same length, same order.
C5_MultiTermsKept ==
    (pc = "into_unnested" /\ item.tag = "Terms" /\ Len(item.items) >= 2) =>
        result = Terms([i \in 1..Len(item.items) |->
                            into_unnested(item.items[i])])

C5_Witness ==
    /\ pc = "into_unnested"
    /\ item.tag = "Terms"
    /\ Len(item.items) = 2
    /\ IsSingletonTerms(item.items[1])
    /\ IsSingletonTerms(item.items[2])
    /\ result.tag = "Terms"
    /\ result # item

\* C6: as_scalar leaves its argument alone and returns the node reached by
\* descending sole children of one-element Terms / Items; the result is not
\* such a wrapper, and it is the argument when the argument is not one.
C6_AsScalarProjects ==
    [][(pc = "build" /\ pc' = "as_scalar") =>
          /\ item' = item
          /\ \E n \in 0..Len(PreOrder(item)) : result' = Unwrapped(item, n)
          /\ result' # None
          /\ ~IsSingletonWrapper(result')
          /\ ~IsSingletonWrapper(item) => result' = item]_vars

C6_Witness ==
    /\ pc = "as_scalar"
    /\ item.tag = "Items"
    /\ IsSingletonWrapper(item)
    /\ IsSingletonTerms(item.items[1])
    /\ result = item.items[1].items[1]

\* C7: extracting the single items of a list built by into_list_of_items
\* gives back the sequence it was built from; coerce_to_list of an item that
\* is not a List gives back that one item.
C7_ListRoundTrip ==
    /\ pc = "into_list_of_items" =>
          into_inner_list_single_items(result) = Ok(arg)
    /\ (pc = "coerce_to_list" /\ item.tag # "List") =>
          into_inner_list_single_items(result) = Ok(<<item>>)

C7_Witness ==
    /\ pc = "into_list_of_items"
    /\ Len(arg) = 2
    /\ arg[1] # arg[2]
    /\ into_inner_list_single_items(result).ok

\* C8: into_inner_list_single_items fails with the received node when the
\* item is not a List, fails on a List one of whose ListItems does not hold
\* exactly one element, and otherwise returns one element per ListItem, in
\* order.
C8_SingleItemsFailsExactly ==
    pc = "into_inner_list_single_items" =>
        /\ item.tag # "List" => (~result.ok /\ result.err.got = item)
        /\ (item.tag = "List"
              /\ \E i \in 1..Len(item.list) : Len(item.list[i].items) # 1)
           => ~result.ok
        /\ (item.tag = "List"
              /\ \A i \in 1..Len(item.list) : Len(item.list[i].items) = 1)
           => /\ result.ok
              /\ Len(result.val) = Len(item.list)
              /\ \A i \in 1..Len(item.list) :
                    result.val[i] = item.list[i].items[1]

C8_Witness ==
    /\ pc = "into_inner_list_single_items"
    /\ item.tag = "List"
    /\ Len(item.list) = 2
    /\ Len(item.list[1].items) = 0
    /\ ~result.ok

\* C9: the result of into_unnested holds no Terms with exactly one child, at
\* any depth.
C9_NoSingletonTerms ==
    pc = "into_unnested" => ~HasNode(result, IsSingletonTerms)

C9_Witness ==
    /\ pc = "into_unnested"
    /\ item.tag = "Table"
    /\ HasNode(item, IsSingletonTerms)
    /\ result.tag = "Table"

\* C10: the Unnest fold never fails, so into_unnested never unwraps an error.
C10_UnnestTotal == pc # "panic"

IsEmptyTerms(it) == it = Terms(<<>>)

C10_Witness ==
    /\ pc = "into_unnested"
    /\ item.tag # "Terms"
    /\ HasNode(item, IsEmptyTerms)
    /\ HasNode(result, IsEmptyTerms)

====
